---- MODULE Spec2Model ----
(***************************************************************************)
(* Model of bibit.py: the rolling portfolio history store, the             *)
(* BibitAPI token-refresh protocol and the BibitNotifyJob run.             *)
(*                                                                         *)
(* Amounts (invested, marketvalue) are fixed-point numbers: the integer n  *)
(* stands for the amount n / Scale, so that amounts of magnitude below 1   *)
(* exist.  A ratio of two amounts is kept as the pair <<num, den>>.        *)
(***************************************************************************)
EXTENDS Integers, Sequences, FiniteSets, TLC

VARIABLES
    secrets_file,   \* content of .secrets.json: a credential record, or Corrupt
    access_token,   \* SecretStore.access_token (None = absent)
    refresh_token,  \* SecretStore.refresh_token
    files,          \* the history directory: file index -> content (history or Corrupt)
    last_idx,       \* RollingJSONFileRepository._last_idx
    store,          \* RollingPortofolioHistoryStore._store: [idx, history]
    now,            \* the last reading of the clock, int(time.time())
    pc,             \* position of the process in __main__ / run / request
    http,           \* HTTP calls issued by the current request() call, in order
    outcome,        \* how the current request() call ended (None while running)
    cleaned,        \* run: the normalised current snapshot
    should_send,    \* run: the decision of _construct_message
    message,        \* run: the message of _construct_message
    notified,       \* run: send_message delivered the message
    failed_at,      \* run: the step that raised (None = no failure)
    runs,           \* number of process invocations so far
    boot_files,     \* the history directory as it was when the process started
    ref_history,    \* a single unbounded PortofolioHistoryStore fed the same adds
    jobs            \* SpecConcurrent: the repository and inner store of each process

vars == <<secrets_file, access_token, refresh_token, files, last_idx, store, now,
          pc, http, outcome, cleaned, should_send, message, notified, failed_at,
          runs, boot_files, ref_history, jobs>>

authVars == <<secrets_file, access_token, refresh_token>>
storeVars == <<files, last_idx, store>>
runVars == <<cleaned, should_send, message, notified>>

----------------------------------------------------------------------------
(* Bounds of the model *)

\* amounts are multiples of 1 / Scale
Scale == 2
\* RollingPortofolioHistoryStore.max_portofolio (100 in the source), scaled down
max_portofolio == 2
\* process invocations of the job in Spec
MaxRuns == 2
\* add calls in SpecRolling
MaxAdds == 9
\* the clock readings of SpecRolling are 0 .. MaxClock
MaxClock == 1
\* add calls in SpecConcurrent
MaxJobAdds == 4

None == "None"

\* a history file: valid JSON holding a history, or an unreadable (truncated) file
HistoryFile(history) == [valid |-> TRUE, history |-> history]
Corrupt == [valid |-> FALSE, history |-> <<>>]

\* the credential file: valid JSON holding the tokens, or an unreadable file
SecretsFile(token) ==
    [valid |-> TRUE, access_token |-> token.access_token,
     refresh_token |-> token.refresh_token]
CorruptSecrets == [valid |-> FALSE, access_token |-> None, refresh_token |-> None]

----------------------------------------------------------------------------
(* Numbers *)

Abs(n) == IF n < 0 THEN -n ELSE n

Max(a, b) == IF a > b THEN a ELSE b

\* int(x): truncation towards zero of the amount n / Scale
PyInt(n) == IF n >= 0 THEN n \div Scale ELSE -((-n) \div Scale)

\* a / b rounded to the nearest integer, ties to the even one (b > 0)
RoundHalfEven(a, b) ==
    LET q == a \div b
        r == a % b
    IN  IF 2 * r < b THEN q
        ELSE IF 2 * r > b THEN q + 1
        ELSE IF q % 2 = 0 THEN q ELSE q + 1

\* round(num) of the amount n / Scale
PyRound(n) == RoundHalfEven(n, Scale)

CeilDiv(a, b) == (a + b - 1) \div b

RECURSIVE Sorted(_)
\* sorted(keys): the elements of a finite set of integers in ascending order
Sorted(S) ==
    IF S = {} THEN <<>>
    ELSE LET m == CHOOSE x \in S : \A y \in S : x <= y
         IN  <<m>> \o Sorted(S \ {m})

----------------------------------------------------------------------------
(* BibitNotifyJob: normalisation and message construction *)

Fields == {"id", "invested", "marketvalue", "name"}

\* _clean_porto_item: keeps the four fields; a missing one is a KeyError
CleanRaises(porto_item) == ~(Fields \subseteq DOMAIN porto_item)

_clean_porto_item(porto_item) == [field \in Fields |-> porto_item[field]]

\* _clean_porto over porto['result']
_clean_porto(result) == [k \in DOMAIN result |-> _clean_porto_item(result[k])]

\* _build_porto_map: id -> record; a later record of the same id overwrites
_build_porto_map(porto) ==
    [i \in {porto[k].id : k \in DOMAIN porto} |->
        porto[CHOOSE k \in DOMAIN porto :
                 /\ porto[k].id = i
                 /\ \A j \in DOMAIN porto : porto[j].id = i => j <= k]]

RECURSIVE Groups(_)
\* the digits of n >= 0 in groups of three, most significant first
Groups(n) == IF n < 1000 THEN <<n>> ELSE Append(Groups(n \div 1000), n % 1000)

\* _format_currency: round, then print with thousands separators
_format_currency(num) ==
    LET rounded == PyRound(num)
    IN  [negative |-> rounded < 0, groups |-> Groups(Abs(rounded))]

\* 1 / 1e-9
EpsInv == 1000000000

\* num / den > 1e-9, for den > 0 (num * EpsInv > den without the product)
AboveEps(num, den) == num > den \div EpsInv

\* _format_message: one block of the message.  The percentage is printed with
\* one decimal: it is kept as the number of tenths.
_format_message(name, num, den, total, profit) ==
    LET n == IF den < 0 THEN -num ELSE num
        d == Abs(den)
    IN  [emoji |-> IF AboveEps(n, d) THEN "up"
                   ELSE IF AboveEps(-n, d) THEN "down"
                   ELSE "flat",
         percentage |-> RoundHalfEven(Abs(n) * 1000, d),
         name |-> name,
         total |-> _format_currency(total),
         profit |-> _format_currency(profit)]

\* the .get(field, 0) of the last record of an id ({} when the id is new)
LastField(last_porto_map, porto_id, field) ==
    IF porto_id \in DOMAIN last_porto_map THEN last_porto_map[porto_id][field] ELSE 0

\* the numerator of change_percentage for one asset:
\* current_profit - last_profit; its denominator is current_invested
ChangeNum(porto_item, last_porto_map) ==
    LET last_value == LastField(last_porto_map, porto_item.id, "marketvalue")
        last_profit == last_value - LastField(last_porto_map, porto_item.id, "invested")
        current_profit == porto_item.marketvalue - porto_item.invested
    IN  current_profit - last_profit

\* faulty variant: compares the values themselves, not their integer parts
ValueChangedExact(current_value, last_value) == current_value # last_value

\* int(current_value) != int(last_value)
ValueChanged(current_value, last_value) == PyInt(current_value) # PyInt(last_value)

\* faulty variant: iterates the ids in descending order
IdOrderDescending(porto_map) ==
    LET asc == Sorted(DOMAIN porto_map)
    IN  [k \in DOMAIN asc |-> asc[Len(asc) + 1 - k]]

\* sorted(porto_map.keys())
IdOrder(porto_map) == Sorted(DOMAIN porto_map)

\* faulty variant: an asset that is gone makes the run notify too
AnyValueChangedOrGone(porto_map, last_porto_map) ==
    \/ \E i \in DOMAIN porto_map :
          ValueChanged(porto_map[i].marketvalue, LastField(last_porto_map, i, "marketvalue"))
    \/ DOMAIN last_porto_map \ DOMAIN porto_map # {}

\* _construct_message, lines 257-270: should_send after the loop over the ids
\* of the current snapshot
AnyValueChanged(porto_map, last_porto_map) ==
    \E i \in DOMAIN porto_map :
        ValueChanged(porto_map[i].marketvalue, LastField(last_porto_map, i, "marketvalue"))

\* _construct_message(porto) against the last snapshot last_porto.
\* raised: the division by current_invested = 0 (ZeroDivisionError).
_construct_message(porto, last_porto) ==
    LET last_porto_map == _build_porto_map(last_porto)
        porto_map == _build_porto_map(porto)
        ids == IdOrder(porto_map)
    IN  IF \E i \in DOMAIN porto_map : porto_map[i].invested = 0
        THEN [raised |-> TRUE, should_send |-> FALSE, message |-> <<>>]
        ELSE [raised |-> FALSE,
              should_send |-> AnyValueChanged(porto_map, last_porto_map),
              message |->
                  [k \in DOMAIN ids |->
                      LET porto_item == porto_map[ids[k]]
                      IN  _format_message(porto_item.name,
                                          ChangeNum(porto_item, last_porto_map),
                                          porto_item.invested,
                                          porto_item.marketvalue,
                                          porto_item.marketvalue - porto_item.invested)]]

----------------------------------------------------------------------------
(* Storage: JSONFileStorage, RollingJSONFileRepository, PortofolioHistoryStore *)

\* how a dump ends: written; open() refused (file untouched, raises);
\* the write failed after open(filename, "w") truncated the file (raises)
DumpOutcomes == {"ok", "denied", "truncated"}

\* faulty variant: every dump goes to the first file
DumpFirstFile(dir, idx, content, how) ==
    IF how = "ok"
    THEN [i \in DOMAIN dir \cup {1} |-> IF i = 1 THEN HistoryFile(content) ELSE dir[i]]
    ELSE dir

\* JSONFileStorage.dump on the history directory
Dump(dir, idx, content, how) ==
    IF how = "ok"
    THEN [i \in DOMAIN dir \cup {idx} |-> IF i = idx THEN HistoryFile(content) ELSE dir[i]]
    ELSE IF how = "truncated"
    THEN [i \in DOMAIN dir \cup {idx} |-> IF i = idx THEN Corrupt ELSE dir[i]]
    ELSE dir

\* faulty variant: the missing file is an error too
LoadRaisesOnMissing(dir, idx) == idx \notin DOMAIN dir \/ ~dir[idx].valid

\* PortofolioHistoryStore.init: the loaded history, [] when the file is missing
\* (StoreNotInitializedError); an unreadable file raises (LoadRaises)
LoadRaises(dir, idx) == idx \in DOMAIN dir /\ ~dir[idx].valid

LoadHistory(dir, idx) == IF idx \in DOMAIN dir THEN dir[idx].history ELSE <<>>

\* faulty variant: the number of files is taken for the highest index
LatestIdxByCount(dir) == Max(1, Cardinality(DOMAIN dir))

\* RollingJSONFileRepository.init: the highest index of the directory, at least 1
LatestIdx(dir) ==
    IF DOMAIN dir = {} THEN 1
    ELSE Max(1, CHOOSE m \in DOMAIN dir : \A i \in DOMAIN dir : i <= m)

\* faulty variant: returns the first snapshot of the history
GetLastFirst(history) ==
    IF history = <<>> THEN <<>> ELSE history[1].portofolios

\* PortofolioHistoryStore.get_last
get_last(history) ==
    IF history = <<>> THEN <<>> ELSE history[Len(history)].portofolios

\* PortofolioHistoryStore.add, before the save: the appended history
Appended(history, snapshot, timestamp) ==
    Append(history, [timestamp |-> timestamp, portofolios |-> snapshot])

\* faulty variant: the index is not incremented
NewFileSame(idx) == idx

\* RollingJSONFileRepository.new_file: the index allocated after idx
new_file(idx) == idx + 1

\* faulty variant: rolls over one entry later
ShouldRollLate(history) == Len(history) > max_portofolio + 1

\* faulty variant: rolls over as soon as the cap is reached
ShouldRollAtCap(history) == Len(history) >= max_portofolio

\* RollingPortofolioHistoryStore.add: the rollover test
ShouldRoll(history) == Len(history) > max_portofolio

\* faulty variant: add reads the file again before it appends
CurrentHistoryReloaded(st, dir) == LoadHistory(dir, st.idx)

\* PortofolioHistoryStore.add, line 96: the history add appends to is the one
\* the store holds in memory since its init
CurrentHistory(st, dir) == st.history

\* RollingPortofolioHistoryStore.add by a process whose repository holds the
\* index lidx and whose inner store is st, on the directory dir: rollover check
\* (new_file and _init_inner_store), append, save.
\* raises: the file of the new index is unreadable.
Added(lidx, st, dir, snapshot, timestamp, how) ==
    LET roll == ShouldRoll(st.history)
        idx == IF roll THEN new_file(lidx) ELSE st.idx
        loaded == IF roll THEN LoadHistory(dir, idx) ELSE CurrentHistory(st, dir)
        history == Appended(loaded, snapshot, timestamp)
    IN  [raises |-> roll /\ LoadRaises(dir, idx),
         last_idx |-> IF roll THEN new_file(lidx) ELSE lidx,
         store |-> [idx |-> idx, history |-> history],
         files |-> Dump(dir, idx, history, how)]

\* RollingPortofolioHistoryStore.add of the process of Spec and SpecRolling
RollingAdd(snapshot, timestamp, how) ==
    LET added == Added(last_idx, store, files, snapshot, timestamp, how)
    IN  /\ ~added.raises
        /\ last_idx' = added.last_idx
        /\ store' = added.store
        /\ files' = added.files
        /\ now' = timestamp

\* time.time(): the clock never goes back
ClockReadings == {t \in {now, now + 1} : t <= MaxClock}

\* new_rolling_portofolio_history_store: repository init, then store init
OpenRaises == LoadRaises(files, LatestIdx(files))

OpenStore ==
    /\ last_idx' = LatestIdx(files)
    /\ store' = [idx |-> LatestIdx(files), history |-> LoadHistory(files, LatestIdx(files))]
    /\ UNCHANGED files

----------------------------------------------------------------------------
(* Inputs: what the servers answer *)

AssetIds == {1, 2}
AssetName(i) == IF i = 1 THEN "Fund A" ELSE "Fund B"

\* the amounts of the assets: the first asset has market values 0, below 1 and
\* 1, and may have nothing invested; the second changes its invested amount
InvestedAmounts(i) == IF i = 1 THEN {0, 2 * Scale} ELSE {Scale, 2 * Scale}
MarketValues(i) == IF i = 1 THEN {0, 1, Scale} ELSE {Scale}

Items(i) ==
    [id : {i}, invested : InvestedAmounts(i), marketvalue : MarketValues(i),
     name : {AssetName(i)}]

\* snapshots: sequences of asset records, ids unique, in any order
Snapshots ==
    {<<>>}
    \cup {<<a>> : a \in UNION {Items(i) : i \in AssetIds}}
    \cup {<<a, b>> : a \in Items(1), b \in Items(2)}
    \cup {<<b, a>> : a \in Items(1), b \in Items(2)}

\* an asset record with a field the job drops, and one with a field missing
ExtraFieldItem ==
    [id |-> 1, invested |-> Scale, marketvalue |-> Scale, name |-> "Fund A", type |-> "rd"]
MissingFieldItem == [id |-> 1, invested |-> Scale, name |-> "Fund A"]

\* a body with data.result
PortfolioBody(result) == [ok |-> TRUE, result |-> result]

\* the body of a failure response, or a body without data.result
ErrorBody == [ok |-> FALSE, result |-> <<>>]

\* bodies of a 200 answer to GET /portfolio: data.result, or a malformed body
PortfolioBodies ==
    {PortfolioBody(r) : r \in Snapshots \cup {<<ExtraFieldItem>>, <<MissingFieldItem>>}}
    \cup {ErrorBody}

\* the token pairs the server issues; a refresh call never returns the refresh
\* token it was given
TokenPairs ==
    {[access_token |-> "A0", refresh_token |-> "R0"],
     [access_token |-> "A1", refresh_token |-> "R1"]}

Issued(given) == {token \in TokenPairs : token.refresh_token # given}

FailureStatuses == {401, 500}

\* the bearer credential _request attaches (none when the token is absent)
Bearer(token) == IF token = None THEN None ELSE token

NoToken == [access_token |-> None, refresh_token |-> None]

\* one HTTP call of the log: where it went, the bearer credential it carried,
\* the status answered (0: no answer, a transport error) and, for a refresh
\* call answered with a token, that token
Call(endpoint, token, status, answer) ==
    [endpoint |-> endpoint, bearer |-> Bearer(token), status |-> status,
     access_token |-> answer.access_token, refresh_token |-> answer.refresh_token]

\* how request() ended: it returned a response, or raised (an HTTPError of a
\* status, or another error)
Running == [kind |-> "none", status |-> 0, error |-> "", body |-> ErrorBody]
Returned(status, body) == [kind |-> "return", status |-> status, error |-> "", body |-> body]
RaisedStatus(status) == [kind |-> "raise", status |-> status, error |-> "http", body |-> ErrorBody]
Raised(what) == [kind |-> "raise", status |-> 0, error |-> what, body |-> ErrorBody]

----------------------------------------------------------------------------
(* The process: __main__, BibitNotifyJob.run, BibitAPI.request *)

\* a snapshot that earlier runs stored
StoredSnapshot ==
    <<[id |-> 2, invested |-> Scale, marketvalue |-> Scale, name |-> AssetName(2)]>>

\* the history directory when the model starts: empty, or left by earlier runs
\* with one file that holds max_portofolio + 1 entries
InitialDirectories ==
    {<<>>,
     <<HistoryFile([k \in 1 .. max_portofolio + 1 |->
                       [timestamp |-> 0, portofolios |-> StoredSnapshot]])>>}

\* the processes of SpecConcurrent
Procs == {1, 2}

\* the state before __main__ runs, on one of the given history directories
InitOn(directories) ==
    /\ secrets_file = SecretsFile([access_token |-> "A0", refresh_token |-> "R0"])
    /\ access_token = None
    /\ refresh_token = None
    /\ files \in directories
    /\ last_idx = 0
    /\ store = [idx |-> 0, history |-> <<>>]
    /\ now = 0
    /\ pc = "boot"
    /\ http = <<>>
    /\ outcome = Running
    /\ cleaned = <<>>
    /\ should_send = FALSE
    /\ message = <<>>
    /\ notified = FALSE
    /\ failed_at = None
    /\ runs = 1
    /\ boot_files = files
    /\ ref_history = <<>>
    /\ jobs = [p \in Procs |->
                  [pc |-> "boot", last_idx |-> 0, store |-> [idx |-> 0, history |-> <<>>],
                   seen |-> 0, adds |-> 0]]

Init == InitOn(InitialDirectories)

\* the run raised at step `step`
Abort(step) ==
    /\ pc' = "aborted"
    /\ failed_at' = step

\* __main__: new_secret_store and new_rolling_portofolio_history_store
Boot ==
    /\ pc = "boot"
    /\ boot_files' = files
    /\ IF ~secrets_file.valid
       THEN /\ pc' = "crashed"
            /\ failed_at' = "boot"
            /\ UNCHANGED <<access_token, refresh_token, storeVars>>
       ELSE /\ access_token' = secrets_file.access_token
            /\ refresh_token' = secrets_file.refresh_token
            /\ IF OpenRaises
               THEN /\ pc' = "crashed"
                    /\ failed_at' = "boot"
                    /\ UNCHANGED storeVars
               ELSE /\ pc' = "request"
                    /\ OpenStore
                    /\ UNCHANGED failed_at
    /\ UNCHANGED <<secrets_file, now, http, outcome, runVars, runs, ref_history>>
    /\ UNCHANGED jobs

\* faulty variant: every failure status starts the refresh
AfterFirstAlwaysRefresh(status) == IF status = 200 THEN "returned" ELSE "refresh"

\* request, lines 184-191: what request does with the status of the first answer
AfterFirst(status) ==
    IF status = 200 THEN "returned"
    ELSE IF status = 401 THEN "refresh"
    ELSE "aborted"

\* request, line 183: the first call, and what request does with the answer
RequestFirst ==
    /\ pc = "request"
    /\ \/ \E body \in PortfolioBodies :
            outcome' = Returned(200, body)
       \/ \E status \in FailureStatuses :
            outcome' = IF AfterFirst(status) = "aborted"
                       THEN RaisedStatus(status)
                       ELSE [Running EXCEPT !.status = status]
       \/ outcome' = Raised("transport")
    /\ pc' = IF outcome'.error = "transport" THEN "aborted" ELSE AfterFirst(outcome'.status)
    /\ failed_at' = IF pc' = "aborted" THEN "fetch" ELSE failed_at
    /\ http' = Append(http, Call("/portfolio", access_token, outcome'.status, NoToken))
    /\ UNCHANGED <<authVars, storeVars, now, runVars, runs, boot_files, ref_history>>
    /\ UNCHANGED jobs

\* faulty variant: the old access token stays in place during the refresh call
RefreshBearerStale == access_token

\* _refresh_token, line 168: the access token while the refresh call is made
RefreshBearer == None

\* faulty variant: writes the new access token next to the old refresh token
SaveContentStale(access, refresh) ==
    SecretsFile([access_token |-> access, refresh_token |-> refresh_token])

\* SecretStore.save: the record written from the in-memory fields
SaveContent(access, refresh) ==
    SecretsFile([access_token |-> access, refresh_token |-> refresh])

\* _refresh_token: the refresh call (allow_fail = False) and the save.
\* An answer 200 whose body lacks data.token is the error "body".
RefreshToken ==
    /\ pc = "refresh"
    /\ \/ \E token \in Issued(refresh_token), how \in DumpOutcomes :
            /\ http' = Append(http, Call("/auth/token", RefreshBearer, 200, token))
            /\ access_token' = token.access_token
            /\ refresh_token' = token.refresh_token
            /\ secrets_file' =
                  IF how = "ok" THEN SaveContent(access_token', refresh_token')
                  ELSE IF how = "truncated" THEN CorruptSecrets
                  ELSE secrets_file
            /\ IF how = "ok"
               THEN pc' = "retry" /\ outcome' = Running /\ UNCHANGED failed_at
               ELSE outcome' = Raised("save") /\ Abort("fetch")
       \/ \E o \in {RaisedStatus(st) : st \in FailureStatuses}
                    \cup {Raised("transport"), Raised("body")} :
            /\ http' = Append(http, Call("/auth/token", RefreshBearer,
                                         IF o.error = "body" THEN 200 ELSE o.status,
                                         NoToken))
            /\ access_token' = RefreshBearer
            /\ outcome' = o
            /\ Abort("fetch")
            /\ UNCHANGED <<refresh_token, secrets_file>>
    /\ UNCHANGED <<storeVars, now, runVars, runs, boot_files, ref_history>>
    /\ UNCHANGED jobs

\* request, line 189: the answer of the retry is returned as it is
RetryOutcome(status, body) == Returned(status, body)

\* faulty variant: refreshes again when the retry is answered 401
AfterRetryLoop(o) ==
    IF o.kind = "raise" THEN "aborted"
    ELSE IF o.status = 401 THEN "refresh" ELSE "returned"

\* request, line 189: request ends with the retry, whatever its answer
AfterRetry(o) == IF o.kind = "raise" THEN "aborted" ELSE "returned"

\* request, line 189: the retry of the original call
RequestRetry ==
    /\ pc = "retry"
    /\ \/ \E body \in PortfolioBodies :
            outcome' = RetryOutcome(200, body)
       \/ \E status \in FailureStatuses :
            outcome' = RetryOutcome(status, ErrorBody)
       \/ outcome' = Raised("transport")
    /\ http' = Append(http, Call("/portfolio", access_token, outcome'.status, NoToken))
    /\ pc' = AfterRetry(outcome')
    /\ failed_at' = IF pc' = "aborted" THEN "fetch" ELSE failed_at
    /\ UNCHANGED <<authVars, storeVars, now, runVars, runs, boot_files, ref_history>>
    /\ UNCHANGED jobs

\* faulty variant: sends whenever the message is not empty
DecideAlways(constructed) == constructed.message # <<>>

\* run, line 282: the decision taken from _construct_message
Decide(constructed) == constructed.should_send

\* faulty variant: swallows the ZeroDivisionError
ConstructRaisedSwallowed(constructed) == FALSE

\* run, line 281: an error of _construct_message leaves run
ConstructRaised(constructed) == constructed.raised

\* get_portofolio's json() and run, lines 280-282: normalise, construct, decide
Construct ==
    /\ pc = "returned"
    /\ IF ~outcome.body.ok
       THEN Abort("clean") /\ UNCHANGED <<cleaned, should_send, message>>
       ELSE IF \E k \in DOMAIN outcome.body.result : CleanRaises(outcome.body.result[k])
       THEN Abort("clean") /\ UNCHANGED <<cleaned, should_send, message>>
       ELSE LET porto == _clean_porto(outcome.body.result)
                constructed == _construct_message(porto, get_last(store.history))
            IN  /\ cleaned' = porto
                /\ IF ConstructRaised(constructed)
                   THEN Abort("construct") /\ UNCHANGED <<should_send, message>>
                   ELSE /\ should_send' = Decide(constructed)
                        /\ message' = constructed.message
                        /\ pc' = IF should_send' THEN "send" ELSE "done"
                        /\ UNCHANGED failed_at
    /\ UNCHANGED <<authVars, storeVars, now, http, outcome, notified, runs, boot_files,
                   ref_history>>
    /\ UNCHANGED jobs

\* faulty variant: goes on to the add when the message was not delivered
AfterSendIgnored(delivered) == "add"

\* send_message, line 214: raise_for_status raises when the message was not delivered
AfterSend(delivered) == IF delivered THEN "add" ELSE "aborted"

\* run, line 283: send_message
SendMessage ==
    /\ pc = "send"
    /\ \E delivered \in BOOLEAN :
          /\ notified' = delivered
          /\ pc' = AfterSend(delivered)
          /\ failed_at' = IF pc' = "aborted" THEN "send" ELSE failed_at
    /\ UNCHANGED <<authVars, storeVars, now, http, outcome, cleaned, should_send, message,
                   runs, boot_files, ref_history>>
    /\ UNCHANGED jobs

\* run, line 284: portofolio_history_store.add(cleaned), at the time of the run
HistoryAdd ==
    /\ pc = "add"
    /\ \E how \in DumpOutcomes :
          /\ RollingAdd(cleaned, now, how)
          /\ IF how = "ok"
             THEN pc' = "done" /\ UNCHANGED failed_at
             ELSE Abort("add")
    /\ UNCHANGED <<authVars, http, outcome, runVars, runs, boot_files, ref_history>>
    /\ UNCHANGED jobs

\* the scheduler starts the job again, later: a new process, nothing kept in memory
Restart ==
    /\ pc \in {"done", "aborted", "crashed"}
    /\ runs < MaxRuns
    /\ runs' = runs + 1
    /\ pc' = "boot"
    /\ access_token' = None
    /\ refresh_token' = None
    /\ last_idx' = 0
    /\ store' = [idx |-> 0, history |-> <<>>]
    /\ http' = <<>>
    /\ outcome' = Running
    /\ cleaned' = <<>>
    /\ should_send' = FALSE
    /\ message' = <<>>
    /\ notified' = FALSE
    /\ failed_at' = None
    /\ now' = now + 1
    /\ UNCHANGED <<secrets_file, files, boot_files, ref_history>>
    /\ UNCHANGED jobs

Next ==
    \/ Boot
    \/ RequestFirst
    \/ RefreshToken
    \/ RequestRetry
    \/ Construct
    \/ SendMessage
    \/ HistoryAdd
    \/ Restart

Spec == Init /\ [][Next]_vars

----------------------------------------------------------------------------
(* The rolling store alone: adds, saves and restarts on a history directory *)

\* the snapshots added in SpecRolling
RollSnapshots == {s \in Snapshots : Len(s) = 1 /\ s[1].id = 2}

\* the entries of a file that earlier runs filled
FullHistory ==
    [k \in 1 .. max_portofolio + 1 |-> [timestamp |-> 0, portofolios |-> StoredSnapshot]]

\* the history directory when SpecRolling starts: empty; one file holding an
\* empty history; files 1 and 3 left by earlier runs, file 2 removed
RollDirectories ==
    {<<>>,
     <<HistoryFile(<<>>)>>,
     [i \in {1, 3} |->
         HistoryFile(IF i = 1 THEN FullHistory
                     ELSE <<[timestamp |-> 0, portofolios |-> StoredSnapshot]>>)]}

InitRolling == InitOn(RollDirectories)

\* the directory was empty when SpecRolling started
StartedEmpty == boot_files = <<>>

\* new_rolling_portofolio_history_store()
RollOpen ==
    /\ pc = "boot"
    /\ ~OpenRaises
    /\ OpenStore
    /\ pc' = "open"
    /\ UNCHANGED <<authVars, now, http, outcome, runVars, failed_at, runs, boot_files,
                   ref_history>>
    /\ UNCHANGED jobs

\* RollingPortofolioHistoryStore.add(snapshot), the save succeeding; the
\* reference store is fed the same entry
RollAdd ==
    /\ pc = "open"
    /\ Len(ref_history) < MaxAdds
    /\ \E snapshot \in RollSnapshots, timestamp \in ClockReadings :
          /\ RollingAdd(snapshot, timestamp, "ok")
          /\ ref_history' = Appended(ref_history, snapshot, timestamp)
    /\ UNCHANGED <<authVars, pc, http, outcome, runVars, failed_at, runs, boot_files>>
    /\ UNCHANGED jobs

\* RollingPortofolioHistoryStore.save(), the save succeeding
RollSave ==
    /\ pc = "open"
    /\ files' = Dump(files, store.idx, store.history, "ok")
    /\ files' # files
    /\ UNCHANGED <<authVars, last_idx, store, now, pc, http, outcome, runVars, failed_at,
                   runs, boot_files, ref_history>>
    /\ UNCHANGED jobs

\* the process ends; the next one starts with nothing in memory.  runs counts
\* the processes started, up to MaxRuns
RollRestart ==
    /\ pc = "open"
    /\ pc' = "boot"
    /\ last_idx' = 0
    /\ store' = [idx |-> 0, history |-> <<>>]
    /\ runs' = IF runs < MaxRuns THEN runs + 1 ELSE runs
    /\ UNCHANGED <<authVars, files, now, http, outcome, runVars, failed_at,
                   boot_files, ref_history>>
    /\ UNCHANGED jobs

NextRolling ==
    \/ RollOpen
    \/ RollAdd
    \/ RollSave
    \/ RollRestart

SpecRolling == InitRolling /\ [][NextRolling]_vars

----------------------------------------------------------------------------
(* Two processes of the job on one history directory *)

\* new_rolling_portofolio_history_store() in process p.  seen: the adds made
\* to the directory before p loaded it
JobOpen(p) ==
    /\ jobs[p].pc = "boot"
    /\ ~OpenRaises
    /\ jobs' = [jobs EXCEPT ![p] =
                   [pc |-> "open",
                    last_idx |-> LatestIdx(files),
                    store |-> [idx |-> LatestIdx(files),
                               history |-> LoadHistory(files, LatestIdx(files))],
                    seen |-> Len(ref_history),
                    adds |-> 0]]
    /\ UNCHANGED <<authVars, storeVars, now, pc, http, outcome, runVars, failed_at, runs,
                   boot_files, ref_history>>

\* RollingPortofolioHistoryStore.add(snapshot) in process p, the save
\* succeeding.  adds: the adds p made
JobAdd(p) ==
    /\ jobs[p].pc = "open"
    /\ Len(ref_history) < MaxJobAdds
    /\ \E snapshot \in RollSnapshots, timestamp \in ClockReadings :
          LET added == Added(jobs[p].last_idx, jobs[p].store, files, snapshot, timestamp,
                             "ok")
          IN  /\ ~added.raises
              /\ jobs' = [jobs EXCEPT ![p].last_idx = added.last_idx,
                                      ![p].store = added.store,
                                      ![p].adds = @ + 1]
              /\ files' = added.files
              /\ now' = timestamp
              /\ ref_history' = Appended(ref_history, snapshot, timestamp)
    /\ UNCHANGED <<authVars, last_idx, store, pc, http, outcome, runVars, failed_at, runs,
                   boot_files>>

NextConcurrent ==
    \E p \in Procs :
        \/ JobOpen(p)
        \/ JobAdd(p)

SpecConcurrent == InitRolling /\ [][NextConcurrent]_vars

----------------------------------------------------------------------------
(* Claims about BibitAPI.request *)

CallsTo(endpoint) == {k \in DOMAIN http : http[k].endpoint = endpoint}

RequestPhase == {"request", "refresh", "retry"}

\* the statuses answered to the calls of the current request(), in order
Statuses == [k \in DOMAIN http |-> http[k].status]

\* C1: a request() call issues at most one refresh call and at most two calls
\* of the original request, three HTTP calls in all, whatever the server
\* answers; each of its steps issues exactly one more call (the first call,
\* then the refresh, then the retry), a step is possible as long as it has
\* not ended, and once it has left these steps it has returned or raised.
C1_RequestBounded ==
    /\ Len(http) <= 3
    /\ Cardinality(CallsTo("/auth/token")) <= 1
    /\ Cardinality(CallsTo("/portfolio")) <= 2
    /\ pc = "request" => Len(http) = 0
    /\ pc = "refresh" => Len(http) = 1
    /\ pc = "retry" => Len(http) = 2
    /\ pc \in RequestPhase => ENABLED (RequestFirst \/ RefreshToken \/ RequestRetry)
    /\ Len(http) > 0 /\ pc \notin RequestPhase => outcome.kind \in {"return", "raise"}

\* a request() that made all three calls and returned
C1_Witness ==
    /\ Len(http) = 3
    /\ outcome.kind = "return"
    /\ Statuses = <<401, 200, 200>>

\* C2: when the first call is answered 401, the refresh succeeds and the retry
\* is answered 401 again, request() raises: it does not return that response.
C2_SecondUnauthorizedRaises ==
    (Len(http) = 3 /\ Statuses = <<401, 200, 401>> /\ outcome.kind # "none")
        => outcome.kind = "raise"

\* C3: when the first call is answered 401 and the retry after a successful
\* refresh is answered 200, request() returns that response, the retry carried
\* the new access token as bearer credential, and the access and refresh
\* tokens in memory and in the credential file are those the refresh returned.
C3_RefreshThenSuccess ==
    (Len(http) = 3 /\ Statuses = <<401, 200, 200>>)
        => /\ outcome.kind = "return"
           /\ outcome.status = 200
           /\ http[3].endpoint = "/portfolio"
           /\ http[3].bearer = http[2].access_token
           /\ http[3].bearer # None
           /\ access_token = http[2].access_token
           /\ refresh_token = http[2].refresh_token
           /\ secrets_file.valid
           /\ secrets_file.access_token = http[2].access_token
           /\ secrets_file.refresh_token = http[2].refresh_token

\* the refresh replaced both tokens and the retry was answered 200
C3_Witness ==
    /\ Len(http) = 3
    /\ Statuses = <<401, 200, 200>>
    /\ pc = "returned"
    /\ http[1].bearer = "A0"
    /\ http[2].access_token = "A1"
    /\ refresh_token = "R1"

----------------------------------------------------------------------------
(* Claims about the rolling store *)

\* number of add calls so far
AddCalls == Len(ref_history)

\* the backing files of the directory
BackingFiles == DOMAIN files

RECURSIVE Concatenated(_)
\* the entries of the files 1 .. n, in the order of the files
Concatenated(n) ==
    IF n = 0 THEN <<>>
    ELSE Concatenated(n - 1) \o (IF n \in BackingFiles THEN files[n].history ELSE <<>>)

\* every entry added is in exactly one file: the files, one after the other,
\* hold the entries added, each once and in the order of the adds
EveryEntryOnce ==
    /\ BackingFiles = 1 .. Cardinality(BackingFiles)
    /\ Concatenated(Cardinality(BackingFiles)) = ref_history

\* C4 as stated: after N > maxEntriesPerFile adds the number of files differs
\* from ceil(N / maxEntriesPerFile) by at most one, and every entry is stored
\* in exactly one file.
C4_FilesWithinOne ==
    (StartedEmpty /\ AddCalls > max_portofolio)
        => /\ Abs(Cardinality(BackingFiles) - CeilDiv(AddCalls, max_portofolio)) <= 1
           /\ EveryEntryOnce

\* C4 amended: after N >= 1 adds the number of files is
\* ceil(N / (maxEntriesPerFile + 1)), and every entry is stored in exactly one
\* file.
C4_FilesExact ==
    StartedEmpty
        => /\ AddCalls >= 1
                 => Cardinality(BackingFiles) = CeilDiv(AddCalls, max_portofolio + 1)
           /\ EveryEntryOnce

\* the store has rolled over twice
C4_Witness ==
    /\ StartedEmpty
    /\ AddCalls > 2 * (max_portofolio + 1)
    /\ Cardinality(BackingFiles) = 3
    /\ pc = "open"

\* C5: after any sequence of adds, across rollovers and restarts, get_last of
\* the rolling store is what a single unbounded store fed the same adds
\* returns: the snapshot added last, or the empty sequence before any add.
C5_GetLastAsSingleStore ==
    (StartedEmpty /\ pc = "open")
        => get_last(store.history) =
              IF ref_history = <<>> THEN <<>>
              ELSE ref_history[Len(ref_history)].portofolios

\* after a rollover, the snapshot added last differs from the first one
C5_Witness ==
    /\ StartedEmpty
    /\ pc = "open"
    /\ store.idx > 1
    /\ Len(store.history) > 1
    /\ get_last(store.history) # ref_history[1].portofolios
    /\ get_last(store.history) # store.history[1].portofolios

----------------------------------------------------------------------------
(* Claims about BibitNotifyJob.run *)

RunEnded == pc \in {"done", "aborted"}

\* the process is in run(), or has ended it
InRun == pc \notin {"boot", "crashed"}

\* the active store as the process loaded it
BootStore ==
    [idx |-> LatestIdx(boot_files),
     history |-> LoadHistory(boot_files, LatestIdx(boot_files))]

\* the last stored snapshot when the run started
LastAtBoot == get_last(BootStore.history)

\* the history is as it was when the run started, on disk and in memory
HistoryUntouched ==
    /\ files = boot_files
    /\ store = BootStore

\* _construct_message returned in this run
Constructed == pc \in {"send", "add", "done"} \/ failed_at \in {"send", "add"}

RECURSIVE EntryCount(_, _)
\* the number of entries in the readable files 1 .. n of a directory
EntryCount(dir, n) ==
    IF n = 0 THEN 0
    ELSE EntryCount(dir, n - 1)
            + (IF n \in DOMAIN dir /\ dir[n].valid THEN Len(dir[n].history) ELSE 0)

\* the current snapshot is the last entry of the active file, on disk as in
\* memory, and the directory holds one entry more than at the start and every
\* file of the start with its entries
AppendedAndPersisted ==
    /\ store.idx \in DOMAIN files
    /\ files[store.idx].valid
    /\ files[store.idx].history = store.history
    /\ store.history # <<>>
    /\ get_last(store.history) = cleaned
    /\ EntryCount(files, last_idx) = EntryCount(boot_files, last_idx) + 1
    /\ \A i \in DOMAIN boot_files :
          /\ i \in DOMAIN files
          /\ i # store.idx => files[i] = boot_files[i]
          /\ i = store.idx =>
                files[i].history = Append(boot_files[i].history,
                                          store.history[Len(store.history)])

\* C6 as stated: a run ends either with the notification sent and the current
\* snapshot appended and persisted, or with neither; never with one of the two.
C6_AllOrNothing ==
    RunEnded
        => \/ notified /\ AppendedAndPersisted
           \/ ~notified /\ HistoryUntouched

\* C6 amended: a run ends with the notification sent and the snapshot appended
\* and persisted, or with neither, or, when the write of the history file
\* fails, with the notification sent and the snapshot not persisted (the file
\* as it was, or unreadable); the history is never changed without a
\* notification sent.
C6_NotifyThenPersist ==
    /\ (InRun /\ ~notified) => HistoryUntouched
    /\ RunEnded
        => \/ pc = "done" /\ notified /\ AppendedAndPersisted
           \/ ~notified /\ HistoryUntouched
           \/ /\ pc = "aborted" /\ failed_at = "add" /\ notified
              /\ ~AppendedAndPersisted
              /\ files = boot_files \/ ~files[store.idx].valid

\* a run that sent the notification and persisted the snapshot in a new file
C6_Witness ==
    /\ pc = "done"
    /\ notified
    /\ AppendedAndPersisted
    /\ store.idx > BootStore.idx

\* C7: a run in which the fetch (a failed refresh included), the normalisation
\* (a missing field) or the construction (an asset with invested = 0) fails
\* aborts: no notification is sent and the history is unchanged on disk and in
\* memory; a run that got past the construction had none of these failures.
C7_FailureBeforeSendAborts ==
    /\ (pc = "aborted" /\ failed_at \in {"fetch", "clean", "construct"})
          => ~notified /\ HistoryUntouched
    /\ Constructed
          => /\ outcome.kind = "return"
             /\ outcome.body.ok
             /\ \A k \in DOMAIN outcome.body.result :
                   /\ Fields \subseteq DOMAIN outcome.body.result[k]
                   /\ outcome.body.result[k].invested # 0
    /\ (Len(http) >= 2 /\ http[2].status # 200) => pc = "aborted" /\ failed_at = "fetch"

\* a run aborted by the division by invested = 0, with a history to keep
C7_Witness ==
    /\ pc = "aborted"
    /\ failed_at = "construct"
    /\ \E k \in DOMAIN cleaned : cleaned[k].invested = 0 /\ cleaned[k].marketvalue >= Scale
    /\ boot_files # <<>>

LastIds == {LastAtBoot[k].id : k \in DOMAIN LastAtBoot}

LastItem(i) == LastAtBoot[CHOOSE k \in DOMAIN LastAtBoot : LastAtBoot[k].id = i]

\* every asset of the current snapshot has the market value it has in the
\* last stored snapshot
SameMarketValues ==
    \A k \in DOMAIN cleaned :
        /\ cleaned[k].id \in LastIds
        /\ cleaned[k].marketvalue = LastItem(cleaned[k].id).marketvalue

\* C8: when every asset of the current snapshot has the market value it has in
\* the last stored snapshot, whatever the invested amounts, the run sends no
\* notification and appends nothing: the history is unchanged.
C8_NoOpStability ==
    (cleaned # <<>> /\ SameMarketValues)
        => /\ ~notified
           /\ pc \notin {"send", "add"}
           /\ HistoryUntouched

\* a run that ended without sending: same market value, other invested amount
C8_Witness ==
    /\ pc = "done"
    /\ cleaned # <<>>
    /\ SameMarketValues
    /\ \E k \in DOMAIN cleaned : cleaned[k].invested # LastItem(cleaned[k].id).invested

\* the block of the message for the asset id i
BlockOf(i) ==
    message[CHOOSE k \in DOMAIN message :
               Cardinality({c \in DOMAIN cleaned : cleaned[c].id < i}) = k - 1]

NewAssets == {k \in DOMAIN cleaned : cleaned[k].id \notin LastIds}

\* C9 as stated: a new asset whose market value is not zero always makes the
\* run decide to notify.
C9_NewHoldingAlwaysNotifies ==
    Constructed
        => \A k \in NewAssets : cleaned[k].marketvalue # 0 => should_send

\* C9 amended: a new asset is compared against market value 0 and invested 0:
\* its block shows currentProfit / currentInvested, and it makes the run decide
\* to notify exactly when the integer part of its market value is not zero (a
\* value of magnitude below 1 does not), provided the construction does not
\* fail on an asset with invested = 0.
C9_NewHoldingBaseline ==
    Constructed
        => /\ \A k \in NewAssets :
                 /\ BlockOf(cleaned[k].id) =
                       _format_message(cleaned[k].name,
                                       cleaned[k].marketvalue - cleaned[k].invested,
                                       cleaned[k].invested,
                                       cleaned[k].marketvalue,
                                       cleaned[k].marketvalue - cleaned[k].invested)
                 /\ PyInt(cleaned[k].marketvalue) # 0 => should_send
           /\ (/\ NewAssets = DOMAIN cleaned
               /\ \A k \in NewAssets : PyInt(cleaned[k].marketvalue) = 0)
                 => ~should_send

\* a new asset of value 1 next to an asset that was stored, and a notification
C9_Witness ==
    /\ Constructed
    /\ should_send
    /\ LastIds # {}
    /\ \E k \in NewAssets :
          /\ PyInt(cleaned[k].marketvalue) # 0
          /\ cleaned[k].marketvalue # cleaned[k].invested
    /\ \E k \in DOMAIN cleaned :
          /\ k \notin NewAssets
          /\ cleaned[k].marketvalue = LastItem(cleaned[k].id).marketvalue

\* the records of a snapshot in every order
Reordered(porto) ==
    {[k \in DOMAIN porto |-> porto[f[k]]] : f \in Permutations(DOMAIN porto)}

\* C10: whatever the order of the records of the current snapshot, the message
\* has one block per asset id, in ascending order of the ids, and the decision
\* to notify is the same.
C10_DeterministicOrdering ==
    Constructed
        => LET ids == Sorted({cleaned[k].id : k \in DOMAIN cleaned})
           IN  /\ Len(message) = Len(ids)
               /\ \A k \in DOMAIN ids : message[k].name = AssetName(ids[k])
               /\ \A porto \in Reordered(cleaned) :
                     LET constructed == _construct_message(porto, LastAtBoot)
                     IN  /\ ~constructed.raised
                         /\ constructed.message = message
                         /\ constructed.should_send = should_send

\* a snapshot of two assets that arrived in descending order of their ids
C10_Witness ==
    /\ Constructed
    /\ Len(cleaned) = 2
    /\ cleaned[1].id > cleaned[2].id
    /\ Len(message) = 2

----------------------------------------------------------------------------
(* Further claims about BibitAPI.request *)

\* the first answer of the current request() is a failure status other than 401
FirstAnswerOtherFailure ==
    /\ Len(http) >= 1
    /\ http[1].status \in FailureStatuses \ {401}

\* C11: when the first answer to request() is a failure status other than 401,
\* request() raises in that step and leaves the credentials in memory and in
\* the credential file as they were; no refresh call and no retry follow.
C11_OtherFailureRaisesAtOnce ==
    [][/\ (pc = "request" /\ Len(http') = 1 /\ http'[1].status \in FailureStatuses \ {401})
            => /\ pc' = "aborted"
               /\ failed_at' = "fetch"
               /\ outcome'.kind = "raise"
               /\ outcome'.status = http'[1].status
               /\ UNCHANGED authVars
       /\ FirstAnswerOtherFailure
            => /\ http' = <<>>
               /\ UNCHANGED secrets_file]_vars

\* request() raised on a first answer 500
C11_Witness ==
    /\ FirstAnswerOtherFailure
    /\ Len(http) = 1
    /\ outcome.kind = "raise"
    /\ http[1].bearer = "A0"
    /\ secrets_file.refresh_token = "R0"

\* C13: the refresh never nests and precedes the retry: a refresh call is the
\* second call, made after a first answer 401 and without bearer credential;
\* the retry is the third call and follows a refresh call answered 200 with a
\* token; a refresh call answered otherwise (401 included) makes request()
\* raise at once, the access token left absent, with no further call.
C13_RefreshIsSequential ==
    /\ \A k \in CallsTo("/auth/token") :
          /\ k = 2
          /\ http[1].endpoint = "/portfolio"
          /\ http[1].status = 401
          /\ http[k].bearer = None
    /\ pc = "refresh" => access_token # None /\ Len(http) = 1
    /\ (pc = "retry" \/ Len(http) = 3)
          => /\ http[2].endpoint = "/auth/token"
             /\ http[2].status = 200
             /\ http[2].access_token # None
             /\ access_token = http[2].access_token
    /\ Len(http) = 3 => http[3].endpoint = "/portfolio"
    /\ (Len(http) >= 2 /\ http[2].status # 200)
          => /\ Len(http) = 2
             /\ pc = "aborted"
             /\ outcome.kind = "raise"
             /\ access_token = None

\* the refresh call was answered 401 and request() raised
C13_Witness ==
    /\ Len(http) = 2
    /\ http[1].bearer = "A0"
    /\ http[2].status = 401
    /\ pc = "aborted"
    /\ access_token = None

\* the refresh call of this step was answered 200 with a token
RefreshAnswered ==
    /\ pc = "refresh"
    /\ Len(http') = 2
    /\ http'[2].status = 200
    /\ http'[2].access_token # None

\* the token the refresh call of this step returned
AnsweredToken ==
    [access_token |-> http'[2].access_token, refresh_token |-> http'[2].refresh_token]

\* the refresh call of this step failed: a failure status, no answer, or a
\* body without token
RefreshFailed ==
    /\ pc = "refresh"
    /\ Len(http') = 2
    /\ http'[2].status # 200 \/ http'[2].access_token = None

\* C18 as stated: the credential file changes only as the last step of a
\* successful refresh, and then both tokens are replaced together; when the
\* refresh call fails the file is unchanged and the access token in memory is
\* left absent.
C18_FileChangesOnlyByRefresh ==
    [][/\ secrets_file' # secrets_file
            => /\ RefreshAnswered
               /\ secrets_file' = SecretsFile(AnsweredToken)
               /\ secrets_file'.access_token # secrets_file.access_token
               /\ secrets_file'.refresh_token # secrets_file.refresh_token
       /\ RefreshFailed
            => /\ UNCHANGED <<secrets_file, refresh_token>>
               /\ access_token' = None]_vars

\* C18 amended: the credential file changes only in the save that ends
\* _refresh_token after a refresh call answered with a token: a save that
\* succeeds replaces both tokens together, by those in memory, and a save that
\* fails in the write leaves the file unreadable (one that is refused leaves
\* it unchanged); when the refresh call fails the file is unchanged and the
\* access token in memory is left absent.
C18_FileChangesOnlyInSave ==
    [][/\ secrets_file' # secrets_file
            => /\ RefreshAnswered
               /\ \/ /\ secrets_file' = SecretsFile(AnsweredToken)
                     /\ secrets_file'.access_token # secrets_file.access_token
                     /\ secrets_file'.refresh_token # secrets_file.refresh_token
                     /\ access_token' = secrets_file'.access_token
                     /\ refresh_token' = secrets_file'.refresh_token
                     /\ pc' = "retry"
                  \/ /\ secrets_file' = CorruptSecrets
                     /\ pc' = "aborted"
       /\ (RefreshAnswered /\ pc' = "retry")
            => secrets_file' = SecretsFile(AnsweredToken)
       /\ RefreshFailed
            => /\ UNCHANGED <<secrets_file, refresh_token>>
               /\ access_token' = None]_vars

\* a refresh replaced both tokens of the credential file
C18_Witness ==
    /\ pc = "retry"
    /\ secrets_file = SecretsFile([access_token |-> "A1", refresh_token |-> "R1"])
    /\ access_token = "A1"
    /\ refresh_token = "R1"

----------------------------------------------------------------------------
(* Further claims about the rolling store *)

\* the file the store opens is missing, or holds an empty history
NothingStored(dir) ==
    \/ LatestIdx(dir) \notin DOMAIN dir
    \/ dir[LatestIdx(dir)] = HistoryFile(<<>>)

\* C12: when the backing file is missing or holds an empty history, init does
\* not fail, the store is empty and get_last returns the empty sequence; with
\* a history that is not empty get_last returns the snapshot of the entry
\* appended last.
C12_EmptyStoreIsNotAnError ==
    /\ (pc = "boot" /\ NothingStored(files)) => ENABLED RollOpen
    /\ (pc = "open" /\ NothingStored(files))
          => store.history = <<>> /\ get_last(store.history) = <<>>
    /\ (pc = "open" /\ store.history # <<>>)
          => /\ get_last(store.history) = store.history[Len(store.history)].portofolios
             /\ AddCalls >= 1
                   => get_last(store.history) = ref_history[AddCalls].portofolios

\* the store was opened on a file that holds an empty history
C12_Witness ==
    /\ pc = "open"
    /\ store.idx \in DOMAIN files
    /\ files[store.idx] = HistoryFile(<<>>)
    /\ store.history = <<>>

\* the highest index of a directory that holds files
MaxIndex(dir) == CHOOSE m \in DOMAIN dir : \A i \in DOMAIN dir : i <= m

\* this step is an add that finds the current store above the cap
AddRollsOver ==
    /\ pc = "open"
    /\ ref_history' # ref_history
    /\ Len(store.history) > max_portofolio

\* C14: in a process that started from an empty directory, every backing file
\* holds at most max_portofolio + 1 entries.
C14_FileWithinCapPlusOne ==
    StartedEmpty
        => \A i \in BackingFiles : Len(files[i].history) <= max_portofolio + 1

\* a file exceeds the cap by one entry and the store has rolled over to the next
C14_Witness ==
    /\ StartedEmpty
    /\ 2 \in BackingFiles
    /\ Len(files[1].history) = max_portofolio + 1
    /\ Len(files[2].history) = 1

\* C15: a step writes no file but the one that is current after the rollover
\* check of add: every other file of the directory, the files with a lower
\* index among them, is still there with the content it had; a file that
\* changes holds the history of the current store.
C15_OlderFilesUntouched ==
    [][/\ \A i \in DOMAIN files :
             i # store'.idx => i \in DOMAIN files' /\ files'[i] = files[i]
       /\ files' # files
             => /\ pc = "open"
                /\ pc' = "open"
                /\ DOMAIN files' = DOMAIN files \cup {store'.idx}
                /\ files'[store'.idx] = HistoryFile(store'.history)]_vars

\* adds were made to the highest file of a directory whose first file is as
\* the earlier runs left it
C15_Witness ==
    /\ ~StartedEmpty
    /\ pc = "open"
    /\ store.idx = 3
    /\ AddCalls = 2
    /\ files[3].history = store.history
    /\ Len(store.history) = 3
    /\ files[1] = boot_files[1]
    /\ files[1].history # <<>>

\* C16: init records the highest index of the directory, 1 when it holds no
\* file (the indices of the files are positive); the index new_file allocates
\* at a rollover is above every index of the directory and above the index
\* recorded before, and has no file; the store loaded at the rollover is
\* empty, so the add leaves exactly one entry in the new file.
C16_FreshIndexAtRollover ==
    [][/\ (pc = "boot" /\ pc' = "open")
             => /\ last_idx' = IF DOMAIN files = {} THEN 1 ELSE MaxIndex(files)
                /\ store'.idx = last_idx'
                /\ files' = files
       /\ (pc' = "open" /\ DOMAIN files # {}) => last_idx' >= MaxIndex(files)
       /\ AddRollsOver
             => /\ last_idx' > last_idx
                /\ \A i \in DOMAIN files : last_idx' > i
                /\ store'.idx = last_idx'
                /\ Len(store'.history) = 1
                /\ store'.history[1] = ref_history'[Len(ref_history')]
                /\ DOMAIN files' = DOMAIN files \cup {last_idx'}
                /\ files'[last_idx'] = HistoryFile(store'.history)]_vars

\* the store rolled over on a directory whose indices have a gap
C16_Witness ==
    /\ DOMAIN boot_files = {1, 3}
    /\ pc = "open"
    /\ last_idx = 4
    /\ store.idx = 4
    /\ Len(store.history) = 1
    /\ DOMAIN files = {1, 3, 4}

\* the snapshot persisted last: the one added last or, before any add, the
\* last one of the highest file the directory had at the start
MostRecentlyPersisted ==
    IF ref_history # <<>> THEN ref_history[Len(ref_history)].portofolios
    ELSE IF DOMAIN boot_files = {} THEN <<>>
    ELSE get_last(boot_files[MaxIndex(boot_files)].history)

\* C19: after any sequence of successful adds and restarts, the file of the
\* open store is the highest file of the directory, the store holds what that
\* file holds, and get_last returns the snapshot persisted last.
C19_RestartKeepsLatest ==
    pc = "open"
        => /\ DOMAIN files # {}
                 => /\ store.idx = MaxIndex(files)
                    /\ store.history = files[store.idx].history
           /\ last_idx = store.idx
           /\ get_last(store.history) = MostRecentlyPersisted

\* a later process opened the directory after a rollover and adds
C19_Witness ==
    /\ pc = "open"
    /\ runs >= 2
    /\ AddCalls >= max_portofolio + 2
    /\ Cardinality(BackingFiles) >= 2
    /\ store.idx = MaxIndex(files)
    /\ Len(store.history) = 2
    /\ get_last(store.history) # store.history[1].portofolios

----------------------------------------------------------------------------
(* Claims about concurrent processes *)

\* the file both processes load when they start together, and what it holds
SharedIdx == LatestIdx(boot_files)
SharedHistory == LoadHistory(boot_files, SharedIdx)

\* every process has loaded the directory and made one add
EachAddedOnce == \A p \in Procs : jobs[p].pc = "open" /\ jobs[p].adds = 1

\* both processes loaded the directory before either added
LoadedTogether == \A p \in Procs : jobs[p].seen = 0

\* one process loaded the directory after the add of the other
LoadedInTurn == {jobs[p].seen : p \in Procs} = {0, 1}

\* C17: when two processes load the same current file and then each adds one
\* snapshot, the file ends with the loaded entries and the entry added second
\* only: the entry added first is lost.  (When the second process loads after
\* the add of the first, the file holds both entries.)
C17_LostUpdate ==
    /\ (EachAddedOnce /\ LoadedTogether)
          => /\ SharedIdx \in DOMAIN files
             /\ files[SharedIdx].history = Append(SharedHistory, ref_history[2])
             /\ Len(files[SharedIdx].history) = Len(SharedHistory) + 1
             /\ DOMAIN files = DOMAIN boot_files \cup {SharedIdx}
             /\ AddCalls = 2
    /\ (EachAddedOnce /\ LoadedInTurn)
          => files[SharedIdx].history = SharedHistory \o ref_history

\* two different entries were added and the file lacks the first
C17_Witness ==
    /\ EachAddedOnce
    /\ LoadedTogether
    /\ ref_history[1] # ref_history[2]
    /\ \A k \in DOMAIN files[SharedIdx].history :
          files[SharedIdx].history[k] # ref_history[1]
    /\ files[SharedIdx].history[Len(files[SharedIdx].history)] = ref_history[2]

----------------------------------------------------------------------------
(* Further claims about BibitNotifyJob.run *)

\* run has normalised the answer of this run
Cleaned == pc \in {"send", "add", "done"} \/ failed_at \in {"construct", "send", "add"}

\* the ids of the last stored snapshot that the current one has no more
Disappeared == LastIds \ {cleaned[k].id : k \in DOMAIN cleaned}

\* the current snapshot is the last stored one without some of its assets
OnlyDisappearance ==
    /\ Disappeared # {}
    /\ \A k \in DOMAIN cleaned :
          /\ cleaned[k].id \in LastIds
          /\ cleaned[k] = LastItem(cleaned[k].id)

\* C20: the run decides to notify only for an asset of the current snapshot
\* whose integer market value differs from the stored one (0 for a new asset);
\* a run whose current snapshot is the last stored one without some of its
\* assets, the empty snapshot included, sends nothing and leaves the history
\* unchanged.
C20_DisappearanceIsSilent ==
    /\ (Constructed /\ should_send)
          => \E k \in DOMAIN cleaned :
                PyInt(cleaned[k].marketvalue) #
                    (IF cleaned[k].id \in LastIds
                     THEN PyInt(LastItem(cleaned[k].id).marketvalue) ELSE 0)
    /\ (Cleaned /\ OnlyDisappearance)
          => /\ ~should_send
             /\ ~notified
             /\ pc \in {"done", "aborted"}
             /\ failed_at \in {None, "construct"}
             /\ HistoryUntouched

\* a run ended silently: the first asset of the last stored snapshot is gone,
\* the second is as it was stored
C20_Witness ==
    /\ pc = "done"
    /\ failed_at = None
    /\ OnlyDisappearance
    /\ Disappeared = {1}
    /\ cleaned # <<>>
    /\ ~notified

====
